---- MODULE Spec2Model ----
(***************************************************************************)
(* A model of the data-access layer of celery_scheduler_demo:              *)
(*   app/core/database.py         engine registry, pool hooks, session     *)
(*                                registry, with_session, DBSession        *)
(*   app/core/sqlalchemy_utils.py update_model_fields, CRUDMixin,          *)
(*                                serialize_value, TruncateString          *)
(* Python's None is modelled by the number 0 wherever the other values of  *)
(* the slot are positive identifiers, and by the string "None" elsewhere.  *)
(***************************************************************************)
EXTENDS Integers, Sequences, FiniteSets, TLC

\* ------------------------------------------------------------------ bounds
MaxProcs == 2        \* process identifiers 1..MaxProcs (1 is the parent)
MaxRecs == 2         \* connection records of the pool
MaxConns == 2        \* physical connections ever opened

None == 0

Pids == 1..MaxProcs
Recs == 1..MaxRecs

VARIABLES
  alive,      \* the process identifiers that exist
  pool,       \* pool[p][r]: connection record r as process p's memory holds it
  nextConn,   \* number of physical connections opened so far
  handed,     \* history: every successful checkout, as [conn, pid, stamp]
  poolEv      \* the last pool event: [kind, pid, rec]

poolVars == <<alive, pool, nextConn, handed, poolEv>>

VARIABLES
  engine,     \* __engine: logical database name -> engine (id None: absent)
  built,      \* history: create_engine calls made for each name
  nEngines,   \* engines constructed so far (the next engine's identity)
  sessionReg, \* __session: logical database name -> scoped factory (None: absent)
  fact,       \* the scoped_session factories built so far
  nFact,      \* factories built so far
  sess,       \* the Session objects created so far
  nSess,      \* sessions created so far
  stack,      \* the with_session invocations in progress, outermost first
  scope,      \* the DBSession scope in progress (session None: no scope)
  ev          \* the last operation of the session layer and what it did

sessVars == <<engine, built, nEngines, sessionReg, fact, nFact, sess, nSess,
              stack, scope, ev>>

VARIABLES
  rows,       \* the committed rows of the entity's table, by id
  nextId,     \* the ids the table's sequence has given out
  now,        \* the clock datetime.now() reads, in whole seconds
  crudEv      \* the last CRUDMixin call: its arguments and what it did

crudVars == <<rows, nextId, now, crudEv>>

VARIABLES
  pureEv      \* a function of sqlalchemy_utils.py applied on its own: its
              \* arguments and, once it has returned, its result

pureVars == <<pureEv>>

vars == <<poolVars, sessVars, crudVars, pureVars>>

\* ------------------------------------------------------- the pool (C1)
\* A connection record: its physical connection, info["pid"], whether it is
\* checked out, and the connection of the proxy handed to the caller.
NoRecord == [connection |-> None, pid |-> None, out |-> FALSE, proxy |-> None]

\* database.py:55-64, the "connect" hook: stamps the record with os.getpid().
connect(getpid, record, dbapi_connection) ==
  [record EXCEPT !.connection = dbapi_connection, !.pid = getpid]

\* A checkout hook that trusts the record: what the pool does without the hook.
checkout_nocheck(getpid, record) ==
  [raised |-> "None",
   record |-> [record EXCEPT !.out = TRUE, !.proxy = record.connection]]

\* database.py:66-75, the "checkout" hook. The pool has built the proxy over
\* the record's connection; on a pid mismatch both are set to None and
\* DisconnectionError is raised, otherwise the proxy is handed out.
checkout(getpid, record) ==
  IF record.pid # getpid
  THEN [raised |-> "DisconnectionError",
        record |-> [record EXCEPT !.connection = None, !.proxy = None]]
  ELSE [raised |-> "None",
        record |-> [record EXCEPT !.out = TRUE, !.proxy = record.connection]]

PoolInit ==
  /\ alive = {1}
  /\ pool = [p \in Pids |-> [r \in Recs |-> NoRecord]]
  /\ nextConn = 0
  /\ handed = {}
  /\ poolEv = [kind |-> "init", pid |-> None, rec |-> None]

\* The pool opens a physical connection for an empty record (first use, or
\* the next use after the record was invalidated), taking the first empty
\* record; the connect hook fires.
PoolConnect(p, r) ==
  /\ p \in alive
  /\ pool[p][r].connection = None
  /\ ~pool[p][r].out
  /\ \A x \in Recs : x < r => pool[p][x].connection # None
  /\ nextConn < MaxConns
  /\ nextConn' = nextConn + 1
  /\ pool' = [pool EXCEPT ![p][r] = connect(p, pool[p][r], nextConn + 1)]
  /\ poolEv' = [kind |-> "connect", pid |-> p, rec |-> r]
  /\ UNCHANGED <<alive, handed, sessVars, crudVars, pureVars>>

\* os.fork(): the child starts with a copy of the parent's memory, pool
\* included, over the same physical connections. Process identifiers are
\* given out in order.
Fork(p, q) ==
  /\ p \in alive
  /\ q \notin alive
  /\ \A x \in Pids : x < q => x \in alive
  /\ alive' = alive \cup {q}
  /\ pool' = [pool EXCEPT ![q] = pool[p]]
  /\ poolEv' = [kind |-> "fork", pid |-> q, rec |-> None]
  /\ UNCHANGED <<nextConn, handed, sessVars, crudVars, pureVars>>

\* The pool checks an idle, connected record out in process p: the checkout
\* hook fires and decides.
Checkout(p, r) ==
  /\ p \in alive
  /\ ~pool[p][r].out
  /\ pool[p][r].connection # None
  /\ LET res == checkout(p, pool[p][r]) IN
       /\ pool' = [pool EXCEPT ![p][r] = res.record]
       /\ IF res.raised = "None"
          THEN /\ handed' = handed \cup {[conn |-> pool[p][r].connection,
                                          pid |-> p,
                                          stamp |-> pool[p][r].pid]}
               /\ poolEv' = [kind |-> "checkout", pid |-> p, rec |-> r]
          ELSE /\ handed' = handed
               /\ poolEv' = [kind |-> res.raised, pid |-> p, rec |-> r]
  /\ UNCHANGED <<alive, nextConn, sessVars, crudVars, pureVars>>

\* The caller returns the proxy to the pool.
Checkin(p, r) ==
  /\ p \in alive
  /\ pool[p][r].out
  /\ pool' = [pool EXCEPT ![p][r].out = FALSE, ![p][r].proxy = None]
  /\ poolEv' = [kind |-> "checkin", pid |-> p, rec |-> r]
  /\ UNCHANGED <<alive, nextConn, handed, sessVars, crudVars, pureVars>>

PoolNext ==
  \/ \E p \in Pids, r \in Recs : PoolConnect(p, r)
  \/ \E p \in Pids, q \in Pids : Fork(p, q)
  \/ \E p \in Pids, r \in Recs : Checkout(p, r)
  \/ \E p \in Pids, r \in Recs : Checkin(p, r)


\* C1: fork safety. Every successful checkout happened in the process whose
\* pid was stamped on the record at connect time, so no physical connection
\* is ever handed out in two processes; and right after a checkout that hit a
\* pid mismatch (DisconnectionError) the record's and the proxy's connection
\* are both None.
C1_ForkSafety ==
  /\ \A h \in handed : h.pid = h.stamp
  /\ \A h1 \in handed, h2 \in handed : h1.conn = h2.conn => h1.pid = h2.pid
  /\ poolEv.kind = "DisconnectionError" =>
       /\ pool[poolEv.pid][poolEv.rec].connection = None
       /\ pool[poolEv.pid][poolEv.rec].proxy = None
       /\ ~pool[poolEv.pid][poolEv.rec].out

\* C1 witness: a forked child tried to check out a connection its parent had
\* opened and was refused.
C1_Witness ==
  /\ poolEv.kind = "DisconnectionError"
  /\ poolEv.pid # 1
  /\ \E h \in handed : h.pid = 1

\* ------------------------------------------- engines and sessions (C2..C8)
MaxEngines == 3      \* engines ever constructed
MaxFactories == 2    \* scoped_session factories ever built
MaxSessions == 2     \* Session objects ever created
MaxDepth == 2        \* nesting depth of with_session invocations

DbNames == {"local", "db2"}
\* What a caller may pass as database: None, the empty string, or a name.
DbArgs == {"None", "", "local", "db2"}
\* What the decorated functions and scopes of the model pass as database.
CallDbArgs == {"None", "db2"}
\* The default retry_count of with_session (database.py:125).
DefaultRetryCount == 3
\* The retry_count values the decorated functions of the model are built with.
RetryCounts == {0, 1, DefaultRetryCount}
PoolSizes == {1, 2}
PoolRecycles == {1, 2}
\* settings.DATABASE_POOL_SIZE / settings.DATABASE_POOL_RECYCLE, the defaults
\* of get_db_engine (database.py:22-23); the settings module is not among the
\* sources and 1 stands for each value.
DATABASE_POOL_SIZE == 1
DATABASE_POOL_RECYCLE == 1
\* How the wrapped function (or the body of a scope) ends.
Outcomes == {"return", "SQLAlchemyError", "Exception"}

NoEngine == [id |-> None, pool_size |-> None, pool_recycle |-> None, hooks |-> 0]
NoFactory == [bind |-> None, database |-> "None", registry |-> None]
\* A Session: the factory that made it and its state: "closed" (new, or
\* close() was the last thing done to it), "open" (in use, in a transaction)
\* or "rolledback" (its transaction was rolled back and it is not closed).
NoSession == [factory |-> None, state |-> "closed"]
NoScope == [database |-> "None", session |-> None]

\* database.py:25-26 and 109-110: "if not database: database = 'local'".
Norm(database) == IF database \in {"None", ""} THEN "local" ELSE database

\* The registries and objects of the session layer as one value, so that the
\* functions below can be composed the way the code calls them.
World ==
  [engine |-> engine, built |-> built, nEngines |-> nEngines,
   sessionReg |-> sessionReg, fact |-> fact, nFact |-> nFact,
   sess |-> sess, nSess |-> nSess]

\* get_db_engine without the cache test: constructs on every call.
get_db_engine_rebuild(w, database, pool_size, pool_recycle) ==
  LET db == Norm(database)
      e == [id |-> w.nEngines + 1, pool_size |-> pool_size,
            pool_recycle |-> pool_recycle, hooks |-> w.engine[db].hooks + 1]
  IN IF w.nEngines >= MaxEngines
     THEN [w |-> w, ret |-> None, blocked |-> TRUE]
     ELSE [w |-> [w EXCEPT !.engine[db] = e, !.nEngines = @ + 1,
                           !.built[db] = @ + 1],
           ret |-> e.id, blocked |-> FALSE]

\* database.py:20-80, get_db_engine: the first call for a name constructs the
\* engine with the passed parameters and installs the connect and checkout
\* hooks on it; later calls return the cached engine. blocked: the model has
\* no engine identity left.
get_db_engine(w, database, pool_size, pool_recycle) ==
  LET db == Norm(database)
      e == [id |-> w.nEngines + 1, pool_size |-> pool_size,
            pool_recycle |-> pool_recycle, hooks |-> 1]
  IN IF w.engine[db].id = None
     THEN IF w.nEngines >= MaxEngines
          THEN [w |-> w, ret |-> None, blocked |-> TRUE]
          ELSE [w |-> [w EXCEPT !.engine[db] = e, !.nEngines = @ + 1,
                                !.built[db] = @ + 1],
                ret |-> e.id, blocked |-> FALSE]
     ELSE [w |-> w, ret |-> w.engine[db].id, blocked |-> FALSE]

\* scoped_session.__call__, the "()" of database.py:137 and 173: the session
\* of the current thread's scope, created on first use.
registry(w, f) ==
  IF w.fact[f].registry # None
  THEN [w |-> w, ret |-> w.fact[f].registry, blocked |-> FALSE]
  ELSE IF w.nSess >= MaxSessions
  THEN [w |-> w, ret |-> None, blocked |-> TRUE]
  ELSE [w |-> [w EXCEPT !.nSess = @ + 1,
                        !.sess[w.nSess + 1] =
                           [factory |-> f, state |-> "closed"],
                        !.fact[f].registry = w.nSess + 1],
        ret |-> w.nSess + 1, blocked |-> FALSE]

\* database.py:95-100, validate: session.connection() on the scoped factory
\* reaches the scope's session (creating it) and asks it for a connection,
\* which begins its transaction; any exception means "dead". connOk is whether
\* the connection can be obtained.
validate(w, f, connOk) ==
  LET r == registry(w, f) IN
    IF r.blocked THEN [w |-> w, ret |-> FALSE, blocked |-> TRUE]
    ELSE IF connOk
    THEN [w |-> [r.w EXCEPT !.sess[r.ret].state = "open"],
          ret |-> TRUE, blocked |-> FALSE]
    ELSE [w |-> r.w, ret |-> FALSE, blocked |-> FALSE]

\* database.py:116-122: build a scoped factory bound to the engine of the same
\* name and cache it.
build_session(w, db) ==
  LET e == get_db_engine(w, db, DATABASE_POOL_SIZE, DATABASE_POOL_RECYCLE) IN
    IF e.blocked \/ e.w.nFact >= MaxFactories
    THEN [w |-> w, ret |-> None, blocked |-> TRUE]
    ELSE [w |-> [e.w EXCEPT !.nFact = @ + 1,
                            !.fact[e.w.nFact + 1] =
                               [bind |-> e.ret, database |-> db, registry |-> None],
                            !.sessionReg[db] = e.w.nFact + 1],
          ret |-> e.w.nFact + 1, blocked |-> FALSE]

\* get_session that returns a cached factory without probing it.
get_session_noprobe(w, database, connOk) ==
  LET db == Norm(database) IN
    IF w.sessionReg[db] # None
    THEN [w |-> w, ret |-> w.sessionReg[db], blocked |-> FALSE]
    ELSE build_session(w, db)

\* database.py:103-122, get_session.
get_session(w, database, connOk) ==
  LET db == Norm(database)
      session == w.sessionReg[db]
  IN IF session # None
     THEN LET v == validate(w, session, connOk) IN
            IF v.blocked THEN [w |-> w, ret |-> None, blocked |-> TRUE]
            ELSE IF v.ret THEN [w |-> v.w, ret |-> session, blocked |-> FALSE]
            ELSE build_session(v.w, db)
     ELSE build_session(w, db)

\* "get_session(database=database)()": the scope's session of the factory,
\* about to be used.
acquire(w, database, connOk) ==
  LET g == get_session(w, database, connOk) IN
    IF g.blocked THEN [w |-> w, ret |-> None, blocked |-> TRUE]
    ELSE LET r == registry(g.w, g.ret) IN
      IF r.blocked THEN [w |-> w, ret |-> None, blocked |-> TRUE]
      ELSE [w |-> [r.w EXCEPT !.sess[r.ret].state = "open"],
            ret |-> r.ret, blocked |-> FALSE]

\* Session.rollback() and Session.close().
rollback(w, s) ==
  IF w.sess[s].state = "open" THEN [w EXCEPT !.sess[s].state = "rolledback"] ELSE w
close(w, s) == [w EXCEPT !.sess[s].state = "closed"]

\* One session step of the handler, and a handler's steps (at most two) in
\* their order.
Step(w, s, a) ==
  IF a = "rollback" THEN rollback(w, s)
  ELSE IF a = "close" THEN close(w, s)
  ELSE w
ApplySteps(w, s, steps) ==
  IF Len(steps) = 0 THEN w
  ELSE IF Len(steps) = 1 THEN Step(w, s, steps[1])
  ELSE Step(Step(w, s, steps[1]), s, steps[2])

SessInit ==
  /\ engine = [d \in DbNames |-> NoEngine]
  /\ built = [d \in DbNames |-> 0]
  /\ nEngines = 0
  /\ sessionReg = [d \in DbNames |-> None]
  /\ fact = [f \in 1..MaxFactories |-> NoFactory]
  /\ nFact = 0
  /\ sess = [s \in 1..MaxSessions |-> NoSession]
  /\ nSess = 0
  /\ stack = <<>>
  /\ scope = NoScope
  /\ ev = [kind |-> "init"]

SetWorld(w) ==
  /\ engine' = w.engine
  /\ built' = w.built
  /\ nEngines' = w.nEngines
  /\ sessionReg' = w.sessionReg
  /\ fact' = w.fact
  /\ nFact' = w.nFact
  /\ sess' = w.sess
  /\ nSess' = w.nSess

\* A direct call of get_db_engine(database, pool_size, pool_recycle).
GetDbEngine(database, pool_size, pool_recycle) ==
  \E r \in {get_db_engine(World, database, pool_size, pool_recycle)} :
    /\ ~r.blocked
    /\ SetWorld(r.w)
    /\ ev' = [kind |-> "get_db_engine", database |-> database,
              pool_size |-> pool_size, pool_recycle |-> pool_recycle,
              before |-> engine[Norm(database)], ret |-> r.ret]
    /\ UNCHANGED <<stack, scope, poolVars, crudVars, pureVars>>

\* A direct call of get_session(database=database).
GetSession(database, connOk) ==
  \E r \in {get_session(World, database, connOk)} :
    /\ ~r.blocked
    /\ SetWorld(r.w)
    /\ ev' = [kind |-> "get_session", database |-> database,
              cached |-> sessionReg[Norm(database)], connOk |-> connOk,
              ret |-> r.ret]
    /\ UNCHANGED <<stack, scope, poolVars, crudVars, pureVars>>

\* ---------------------------------------------------------- with_session
\* One invocation of the decorated function "func" (database.py:130-161):
\* the decorator's arguments, the local variable session, kwargs["session"],
\* the iterations of the for loop begun, the calls of fn made and the session
\* steps taken so far.
NewFrame(database, retry_count, passed) ==
  [database |-> database, retry_count |-> retry_count, session |-> None,
   kw |-> passed, i |-> 0, calls |-> 0, steps |-> <<>>]

\* database.py:134-141 and 161: the head of one iteration of
\* "for _ in range(retry_count)". While iterations remain, a session is
\* obtained unless kwargs holds one, and fn is called (to = "fn"); when none
\* remain, control reaches line 161, session.rollback(), which raises
\* AttributeError on None and otherwise lets func return None.
iterate(w, fr, connOk) ==
  IF fr.i >= fr.retry_count
  THEN IF fr.session = None
       THEN [w |-> w, frame |-> fr, to |-> "raise", exc |-> "AttributeError",
             blocked |-> FALSE]
       ELSE [w |-> rollback(w, fr.session),
             frame |-> [fr EXCEPT !.steps = Append(@, "rollback")],
             to |-> "return", exc |-> "None", blocked |-> FALSE]
  ELSE IF fr.kw = None
  THEN LET a == acquire(w, fr.database, connOk) IN
         IF a.blocked
         THEN [w |-> w, frame |-> fr, to |-> "fn", exc |-> "None", blocked |-> TRUE]
         ELSE [w |-> a.w,
               frame |-> [fr EXCEPT !.session = a.ret, !.kw = a.ret,
                                    !.i = @ + 1, !.calls = @ + 1],
               to |-> "fn", exc |-> "None", blocked |-> FALSE]
  ELSE [w |-> w, frame |-> [fr EXCEPT !.i = @ + 1, !.calls = @ + 1],
        to |-> "fn", exc |-> "None", blocked |-> FALSE]

\* The handler with the commented-out "except OperationalError: continue" of
\* database.py:145-146 put back for data-access errors.
handler_continue(fr, outcome) ==
  IF fr.session = None
  THEN [steps |-> <<>>, next |-> IF outcome = "return" THEN "return" ELSE "raise",
        exc |-> IF outcome = "return" THEN "None" ELSE outcome]
  ELSE IF outcome = "return"
  THEN [steps |-> <<"close">>, next |-> "return", exc |-> "None"]
  ELSE IF outcome = "SQLAlchemyError"
  THEN [steps |-> <<"close">>, next |-> "continue", exc |-> "None"]
  ELSE [steps |-> <<"close">>, next |-> "raise", exc |-> outcome]

\* The handler with session.close() after the try statement instead of in
\* its finally clause.
handler_nofinally(fr, outcome) ==
  IF fr.session = None
  THEN [steps |-> <<>>, next |-> IF outcome = "return" THEN "return" ELSE "raise",
        exc |-> IF outcome = "return" THEN "None" ELSE outcome]
  ELSE IF outcome = "return"
  THEN [steps |-> <<"close">>, next |-> "return", exc |-> "None"]
  ELSE IF outcome = "SQLAlchemyError"
  THEN [steps |-> <<"rollback">>, next |-> "raise", exc |-> outcome]
  ELSE [steps |-> <<>>, next |-> "raise", exc |-> outcome]

\* The handler closing the session in use also when the caller supplied it.
handler_closesupplied(fr, outcome) ==
  IF outcome = "return"
  THEN [steps |-> <<"close">>, next |-> "return", exc |-> "None"]
  ELSE IF outcome = "SQLAlchemyError" /\ fr.session # None
  THEN [steps |-> <<"rollback", "close">>, next |-> "raise", exc |-> outcome]
  ELSE [steps |-> <<"close">>, next |-> "raise", exc |-> outcome]

\* The handler without the rollback of line 148.
handler_norollback(fr, outcome) ==
  IF fr.session = None
  THEN [steps |-> <<>>, next |-> IF outcome = "return" THEN "return" ELSE "raise",
        exc |-> IF outcome = "return" THEN "None" ELSE outcome]
  ELSE IF outcome = "return"
  THEN [steps |-> <<"close">>, next |-> "return", exc |-> "None"]
  ELSE [steps |-> <<"close">>, next |-> "raise", exc |-> outcome]

\* database.py:140-159: what func does once fn has ended with outcome. With
\* a caller-supplied session (the local session is None) line 141 returns or
\* propagates whatever fn did; otherwise the try statement: SQLAlchemyError
\* is rolled back and re-raised, and the finally clause closes the session on
\* every path.
handler(fr, outcome) ==
  IF fr.session = None
  THEN [steps |-> <<>>, next |-> IF outcome = "return" THEN "return" ELSE "raise",
        exc |-> IF outcome = "return" THEN "None" ELSE outcome]
  ELSE IF outcome = "return"
  THEN [steps |-> <<"close">>, next |-> "return", exc |-> "None"]
  ELSE IF outcome = "SQLAlchemyError"
  THEN [steps |-> <<"rollback", "close">>, next |-> "raise", exc |-> outcome]
  ELSE [steps |-> <<"close">>, next |-> "raise", exc |-> outcome]

\* The record of an invocation that has ended: how fn ended (None: it never
\* ran), how func ended (to: return or raise, with exc), and the frame.
ExitEvent(fr, outcome, to, exc) ==
  [kind |-> "exit", retry_count |-> fr.retry_count,
   injected |-> fr.session, kw |-> fr.kw, calls |-> fr.calls,
   steps |-> fr.steps, outcome |-> outcome, to |-> to, exc |-> exc]

\* What a caller can pass as the session keyword: nothing, or the session it
\* holds itself (the fn of the innermost invocation passes on its
\* kwargs["session"], as CRUDMixin.update and delete do).
Passable ==
  {None} \cup (IF stack # <<>> THEN {stack[Len(stack)].kw} ELSE {})

\* A call of a decorated function, from the top level (outside any scope) or
\* from the fn of the innermost invocation in progress, passing
\* session=passed (None: no session keyword). Runs func up to its call of fn.
Call(database, retry_count, passed, connOk) ==
  /\ scope.session = None
  /\ Len(stack) < MaxDepth
  /\ passed \in Passable
  /\ \E it \in {iterate(World, NewFrame(database, retry_count, passed), connOk)} :
       /\ ~it.blocked
       /\ SetWorld(it.w)
       /\ IF it.to = "fn"
          THEN /\ stack' = Append(stack, it.frame)
               /\ ev' = [kind |-> "call", injected |-> it.frame.session]
          ELSE /\ stack' = stack
               /\ ev' = ExitEvent(it.frame, "None", it.to, it.exc)
  /\ UNCHANGED <<scope, poolVars, crudVars, pureVars>>

\* The fn of the innermost invocation ends with outcome; func runs to its
\* own end (or, were the loop to continue, to the next call of fn).
Finish(outcome, connOk) ==
  /\ stack # <<>>
  /\ LET fr == stack[Len(stack)]
         h == handler(fr, outcome)
         fr1 == [fr EXCEPT !.steps = @ \o h.steps]
         w1 == IF fr.session = None THEN World
               ELSE ApplySteps(World, fr.session, h.steps)
     IN IF h.next = "continue"
        THEN \E it \in {iterate(w1, fr1, connOk)} :
               /\ ~it.blocked
               /\ SetWorld(it.w)
               /\ IF it.to = "fn"
                  THEN /\ stack' = [stack EXCEPT ![Len(stack)] = it.frame]
                       /\ ev' = [kind |-> "retry", injected |-> it.frame.session]
                  ELSE /\ stack' = SubSeq(stack, 1, Len(stack) - 1)
                       /\ ev' = ExitEvent(it.frame, outcome, it.to, it.exc)
        ELSE /\ SetWorld(w1)
             /\ stack' = SubSeq(stack, 1, Len(stack) - 1)
             /\ ev' = ExitEvent(fr1, outcome, h.next, h.exc)
  /\ UNCHANGED <<scope, poolVars, crudVars, pureVars>>

\* ------------------------------------------------------------- DBSession
\* scoped_session.remove(): close the scope's session, if any, and forget it.
remove(w, f) ==
  IF w.fact[f].registry = None THEN w
  ELSE [close(w, w.fact[f].registry) EXCEPT !.fact[f].registry = None]

\* database.py:176-184, leaving the scope: SQLAlchemyError is rolled back and
\* re-raised; the finally clause calls get_session(), with no database
\* argument, and removes that factory's scope session.
DBSession_exit(w, sc, outcome, connOk) ==
  LET w1 == IF outcome = "SQLAlchemyError" THEN rollback(w, sc.session) ELSE w
      g == get_session(w1, "None", connOk)
  IN IF g.blocked
     THEN [w |-> w, steps |-> <<>>, removed |-> None, exc |-> "None", blocked |-> TRUE]
     ELSE [w |-> remove(g.w, g.ret),
           steps |-> (IF outcome = "SQLAlchemyError" THEN <<"rollback">> ELSE <<>>)
                     \o <<"remove">>,
           removed |-> g.ret,
           exc |-> IF outcome = "return" THEN "None" ELSE outcome,
           blocked |-> FALSE]

\* database.py:173-175, entering "with DBSession(database)".
ScopeEnter(database, connOk) ==
  /\ scope.session = None
  /\ stack = <<>>
  /\ \E a \in {acquire(World, database, connOk)} :
       /\ ~a.blocked
       /\ SetWorld(a.w)
       /\ scope' = [database |-> database, session |-> a.ret]
       /\ ev' = [kind |-> "scope_enter", session |-> a.ret]
  /\ UNCHANGED <<stack, poolVars, crudVars, pureVars>>

\* The body of the scope ends with outcome.
ScopeExit(outcome, connOk) ==
  /\ scope.session # None
  /\ stack = <<>>
  /\ \E x \in {DBSession_exit(World, scope, outcome, connOk)} :
       /\ ~x.blocked
       /\ SetWorld(x.w)
       /\ ev' = [kind |-> "scope_exit", database |-> scope.database,
                 session |-> scope.session, outcome |-> outcome,
                 steps |-> x.steps, removed |-> x.removed, exc |-> x.exc]
  /\ scope' = NoScope
  /\ UNCHANGED <<stack, poolVars, crudVars, pureVars>>

RegNext ==
  \/ \E d \in DbArgs, ps \in PoolSizes, pr \in PoolRecycles : GetDbEngine(d, ps, pr)
  \/ \E d \in DbArgs, c \in BOOLEAN : GetSession(d, c)

SessNext ==
  \/ \E d \in CallDbArgs, rc \in RetryCounts, s \in 0..MaxSessions, c \in BOOLEAN :
       Call(d, rc, s, c)
  \/ \E o \in Outcomes, c \in BOOLEAN : Finish(o, c)
  \/ \E d \in CallDbArgs, c \in BOOLEAN : ScopeEnter(d, c)
  \/ \E o \in Outcomes, c \in BOOLEAN : ScopeExit(o, c)


\* -------------------------------------------------------------- CRUDMixin
MaxIds == 1          \* rows ever created
MaxTime == 2         \* the clock runs from 1 to MaxTime

\* An entity with one data column, name, and the updated_at timestamp; an
\* entity class may lack updated_at (stamped FALSE), and then the field stays
\* None. Column values and times are numbers, None is 0.
FieldNames == {"name", "updated_at"}
NameVals == {None, 1, 2}
TimeVals == 0..MaxTime
NoRow == [exists |-> FALSE, stamped |-> FALSE, name |-> None, updated_at |-> None]

\* The fields mappings a caller passes: any subset of the columns.
FieldsArgs ==
  {f \in UNION {[D -> NameVals \cup TimeVals] : D \in SUBSET FieldNames} :
     /\ "name" \in DOMAIN f => f["name"] \in NameVals
     /\ "updated_at" \in DOMAIN f => f["updated_at"] \in TimeVals}

\* The field_names arguments: not given (None), or a list of names.
FieldNamesArgs ==
  {[given |-> FALSE, names |-> <<>>],
   [given |-> TRUE, names |-> <<>>],
   [given |-> TRUE, names |-> <<"name">>],
   [given |-> TRUE, names |-> <<"updated_at", "name">>]}

\* fields.keys(), in a fixed order.
keys(fields) == SelectSeq(<<"name", "updated_at">>, LAMBDA k : k \in DOMAIN fields)

\* sqlalchemy_utils.py:248-258, the loop of update_model_fields over the
\* remaining names.
RECURSIVE update_loop(_, _, _, _, _)
update_loop(model, model_updated, names, skip_if_value_none, fields) ==
  IF names = <<>> THEN [model |-> model, model_updated |-> model_updated]
  ELSE LET key == Head(names) IN
    IF key \notin DOMAIN fields
    THEN update_loop(model, model_updated, Tail(names), skip_if_value_none, fields)
    ELSE IF skip_if_value_none /\ fields[key] = None
    THEN update_loop(model, model_updated, Tail(names), skip_if_value_none, fields)
    ELSE IF model[key] # fields[key]
    THEN update_loop([model EXCEPT ![key] = fields[key]], TRUE, Tail(names),
                     skip_if_value_none, fields)
    ELSE update_loop(model, model_updated, Tail(names), skip_if_value_none, fields)

\* update_model_fields that goes through every key of fields whatever
\* field_names is.
update_model_fields_allkeys(model, skip_if_value_none, field_names, fields) ==
  update_loop(model, FALSE, keys(fields), skip_if_value_none, fields)

\* update_model_fields that reports an update whether or not a value changed.
update_model_fields_always(model, skip_if_value_none, field_names, fields) ==
  [model |-> update_loop(model, FALSE,
                         IF field_names.given THEN field_names.names ELSE keys(fields),
                         skip_if_value_none, fields).model,
   model_updated |-> TRUE]

\* sqlalchemy_utils.py:228-260, update_model_fields (the definition in force;
\* lines 59-91 hold the same text).
update_model_fields(model, skip_if_value_none, field_names, fields) ==
  update_loop(model, FALSE,
              IF field_names.given THEN field_names.names ELSE keys(fields),
              skip_if_value_none, fields)

\* The column default of updated_at in an entity class that has the column:
\* the time of the insert.
column_default(stamped, fields, clock) ==
  IF stamped /\ "updated_at" \notin DOMAIN fields THEN clock ELSE None

\* sqlalchemy_utils.py:116-127, get(id=id): the row with that id, or None
\* (exists FALSE) when there is none.
get(table, id) == IF id \in DOMAIN table /\ table[id].exists THEN table[id] ELSE NoRow

\* update that inserts a row under the id when there is none.
update_upsert(table, clock, id, fields, field_names, skip_if_value_none, update_callback, commit) ==
  LET item == get(table, id)
      u == update_model_fields(IF item.exists THEN item
                               ELSE [NoRow EXCEPT !.exists = TRUE],
                               skip_if_value_none, field_names, fields)
  IN [table |-> IF commit THEN [table EXCEPT ![id] = u.model] ELSE table,
      found |-> item.exists, item |-> IF item.exists THEN u.model ELSE NoRow,
      updated |-> u.model_updated,
      callback |-> IF u.model_updated /\ update_callback THEN <<u.model>> ELSE <<>>]

\* update whose flushed changes stay in the table without a commit.
update_flush_persists(table, clock, id, fields, field_names, skip_if_value_none, update_callback, commit) ==
  LET item == get(table, id)
      u == update_model_fields(item, skip_if_value_none, field_names, fields)
      stamped == IF u.model_updated /\ u.model.stamped
                 THEN [u.model EXCEPT !.updated_at = clock] ELSE u.model
  IN IF ~item.exists
     THEN [table |-> table, found |-> FALSE, item |-> NoRow, updated |-> FALSE,
           callback |-> <<>>]
     ELSE [table |-> IF u.model_updated THEN [table EXCEPT ![id] = stamped] ELSE table,
           found |-> TRUE, item |-> stamped, updated |-> u.model_updated,
           callback |-> IF u.model_updated /\ update_callback
                        THEN <<stamped>> ELSE <<>>]

\* update with the callback invoked outside "if updated".
update_callback_always(table, clock, id, fields, field_names, skip_if_value_none, update_callback, commit) ==
  LET item == get(table, id) IN
    IF ~item.exists
    THEN [table |-> table, found |-> FALSE, item |-> NoRow, updated |-> FALSE,
          callback |-> <<>>]
    ELSE LET u == update_model_fields(item, skip_if_value_none, field_names, fields)
             stamped == IF u.model_updated /\ u.model.stamped
                        THEN [u.model EXCEPT !.updated_at = clock] ELSE u.model
         IN [table |-> IF u.model_updated /\ commit
                       THEN [table EXCEPT ![id] = stamped] ELSE table,
             found |-> TRUE, item |-> stamped, updated |-> u.model_updated,
             callback |-> IF update_callback THEN <<stamped>> ELSE <<>>]

\* sqlalchemy_utils.py:166-201, CRUDMixin.update, with the session the
\* decorator injects and closes: the committed table afterwards, whether the
\* row was found, the entity returned, and the entities the callback was
\* called with. Without commit the flushed changes are dropped when the
\* decorator closes the session; the returned entity keeps them.
update(table, clock, id, fields, field_names, skip_if_value_none, update_callback, commit) ==
  LET item == get(table, id) IN
    IF ~item.exists
    THEN [table |-> table, found |-> FALSE, item |-> NoRow, updated |-> FALSE,
          callback |-> <<>>]
    ELSE LET u == update_model_fields(item, skip_if_value_none, field_names, fields)
             stamped == IF u.model_updated /\ u.model.stamped
                        THEN [u.model EXCEPT !.updated_at = clock] ELSE u.model
         IN [table |-> IF u.model_updated /\ commit
                       THEN [table EXCEPT ![id] = stamped] ELSE table,
             found |-> TRUE, item |-> stamped, updated |-> u.model_updated,
             callback |-> IF u.model_updated /\ update_callback
                          THEN <<stamped>> ELSE <<>>]

CrudInit ==
  /\ rows = [i \in 1..MaxIds |-> NoRow]
  /\ nextId = 0
  /\ now = 1
  /\ crudEv = [kind |-> "idle"]

\* Time passes.
Tick ==
  /\ crudEv.kind = "idle"
  /\ now < MaxTime
  /\ now' = now + 1
  /\ UNCHANGED <<rows, nextId, crudEv, poolVars, sessVars, pureVars>>

\* The caller takes what the last call returned or raised; the next call can
\* begin.
Return ==
  /\ crudEv.kind # "idle"
  /\ crudEv' = [kind |-> "idle"]
  /\ UNCHANGED <<rows, nextId, now, poolVars, sessVars, pureVars>>

\* session.refresh(item) without the reload: the entity keeps what was
\* assigned to it in memory.
refresh_stale(tx, id, item) == item

\* session.refresh(item), sqlalchemy_utils.py:163 and 197: the entity's
\* attributes are loaded again from its row as the session sees it.
refresh(tx, id, item) == tx[id]

\* sqlalchemy_utils.py:147-164, CRUDMixin.create, with the session the
\* decorator injects and closes: the entity is built and every pair of fields
\* assigned (155-157), the INSERT under the next id fills the column default
\* (158-162), the entity is refreshed (163). tx is the table as the session
\* sees it; it becomes the committed table only with commit, and is dropped
\* otherwise when the decorator closes the session.
create(table, clock, id, stamped, fields, commit) ==
  LET item == [exists |-> TRUE, stamped |-> stamped,
               name |-> IF "name" \in DOMAIN fields THEN fields["name"] ELSE None,
               updated_at |-> IF "updated_at" \in DOMAIN fields
                              THEN fields["updated_at"] ELSE None]
      row == IF "updated_at" \in DOMAIN fields THEN item
             ELSE [item EXCEPT !.updated_at = column_default(stamped, fields, clock)]
      tx == [table EXCEPT ![id] = row]
  IN [table |-> IF commit THEN tx ELSE table, id |-> id,
      item |-> refresh(tx, id, item)]

\* A call of create(fields, commit) for an entity class with (stamped) or
\* without the updated_at column.
Create(stamped, fields, commit) ==
  /\ crudEv.kind = "idle"
  /\ nextId < MaxIds
  /\ "updated_at" \in DOMAIN fields => stamped
  /\ \E r \in {create(rows, now, nextId + 1, stamped, fields, commit)} :
        /\ nextId' = nextId + 1
        /\ rows' = r.table
        /\ crudEv' = [kind |-> "create", commit |-> commit, id |-> r.id,
                      fields |-> fields, item |-> r.item]
  /\ UNCHANGED <<now, poolVars, sessVars, pureVars>>

\* Whether a call selects a field whose new value differs from the entity's
\* current one: the field is named in field_names (every key of fields when
\* field_names is not given), is a key of fields, and is not a None skipped
\* under skip_if_value_none.
Selected(fields, field_names, skip_if_value_none) ==
  {k \in DOMAIN fields :
     /\ field_names.given => \E n \in 1..Len(field_names.names) : field_names.names[n] = k
     /\ ~(skip_if_value_none /\ fields[k] = None)}

SelectedDiffer(model, fields, field_names, skip_if_value_none) ==
  \E k \in Selected(fields, field_names, skip_if_value_none) : fields[k] # model[k]

\* A call of update(id, fields, field_names, skip_if_value_none,
\* update_callback, commit); update_callback says whether one is supplied.
\* The event keeps the entity as it was, the entity returned, the callback's
\* calls, and whether a selected field's new value differed.
Update(id, fields, field_names, skip_if_value_none, update_callback, commit) ==
  /\ crudEv.kind = "idle"
  /\ (get(rows, id).exists /\ "updated_at" \in DOMAIN fields) => get(rows, id).stamped
  /\ LET r == update(rows, now, id, fields, field_names, skip_if_value_none,
                     update_callback, commit)
     IN /\ rows' = r.table
        /\ crudEv' = [kind |-> "update", id |-> id,
                      update_callback |-> update_callback,
                      commit |-> commit, before |-> get(rows, id),
                      differ |-> SelectedDiffer(get(rows, id), fields, field_names,
                                                skip_if_value_none),
                      found |-> r.found, item |-> r.item, callback |-> r.callback]
  /\ UNCHANGED <<nextId, now, poolVars, sessVars, pureVars>>

\* sqlalchemy_utils.py:203-212, CRUDMixin.delete(id, commit): the row is
\* deleted when it exists and commit is set; a deletion that is not committed
\* is dropped when the decorator closes the session.
Delete(id, commit) ==
  /\ crudEv.kind = "idle"
  /\ rows' = IF get(rows, id).exists /\ commit
             THEN [rows EXCEPT ![id] = NoRow] ELSE rows
  /\ crudEv' = [kind |-> "delete", id |-> id, commit |-> commit,
                before |-> get(rows, id), found |-> get(rows, id).exists]
  /\ UNCHANGED <<nextId, now, poolVars, sessVars, pureVars>>

\* sqlalchemy_utils.py:123-127, a call of get(id=id) in a decorated call of
\* its own, made when the previous call has returned (prev: that call, which
\* the caller still holds the result of).
Get(id) ==
  /\ crudEv.kind # "get"
  /\ crudEv' = [kind |-> "get", id |-> id, prev |-> crudEv,
                found |-> get(rows, id).exists, item |-> get(rows, id)]
  /\ UNCHANGED <<rows, nextId, now, poolVars, sessVars, pureVars>>

CrudNext ==
  \/ Tick
  \/ Return
  \/ \E i \in 1..MaxIds : Get(i)
  \/ \E st \in BOOLEAN, f \in FieldsArgs, c \in BOOLEAN : Create(st, f, c)
  \/ \E i \in 1..MaxIds, f \in FieldsArgs, fn \in FieldNamesArgs,
        sk \in BOOLEAN, cb \in BOOLEAN, c \in BOOLEAN : Update(i, f, fn, sk, cb, c)
  \/ \E i \in 1..MaxIds, c \in BOOLEAN : Delete(i, c)


\* ---------------------------------------------------------------- get_all
MaxRows == 3         \* rows of the table that get_all queries
MaxPage == 2         \* limit and offset run over 0..MaxPage

\* Python's None in a slot where 0 is a value (limit, offset).
Unset == -1

\* The table queried: the names of its rows in the order the database holds
\* them; the id of a row is its position.
QNames == {1, 2, 3}
QTables == UNION {[1..n -> QNames] : n \in 0..MaxRows}
QRow(table, i) == [id |-> i, name |-> table[i]]

\* The equality filters a caller passes as **kwargs, the paging arguments and
\* the order_by arguments.
QFilters ==
  {f \in UNION {[D -> {1, 2}] : D \in SUBSET {"id", "name"}} :
     "id" \in DOMAIN f => f["id"] = 1}
QPages == {Unset} \cup 0..MaxPage
QOrders == {"None", "id", "name"}

\* sqlalchemy_utils.py:116-121, _get_query: a query over the entity's table,
\* with filter_by(**kwargs) when kwargs is not empty.
_get_query(kwargs) ==
  [filter_by |-> kwargs, order_by |-> "None", desc |-> FALSE,
   limit |-> Unset, offset |-> Unset]

\* Query.all() for a query that applies limit and offset as operations on
\* the rows in the order of the calls: the first limit rows, and of those
\* the ones after the first offset.
all_limit_first(table, q) ==
  LET matching == {i \in 1..Len(table) :
                     \A k \in DOMAIN q.filter_by : QRow(table, i)[k] = q.filter_by[k]}
      before(a, b) == IF q.order_by = "None" THEN TRUE
                      ELSE IF q.desc THEN QRow(table, a)[q.order_by] >= QRow(table, b)[q.order_by]
                      ELSE QRow(table, a)[q.order_by] <= QRow(table, b)[q.order_by]
      orderings == {p \in [1..Cardinality(matching) -> matching] :
                      /\ \A j, k \in DOMAIN p : j # k => p[j] # p[k]
                      /\ \A j, k \in DOMAIN p : j < k => before(p[j], p[k])}
      first(p) == IF q.limit = Unset \/ q.limit >= Len(p) THEN p
                  ELSE SubSeq(p, 1, q.limit)
      rest(p) == IF q.offset = Unset THEN p
                 ELSE SubSeq(p, q.offset + 1, Len(p))
  IN {[k \in DOMAIN rest(first(p)) |-> QRow(table, rest(first(p))[k])] : p \in orderings}

\* Query.all(), sqlalchemy_utils.py:145: the SELECT the query stands for,
\* run on the table. WHERE keeps the rows equal to every filter; ORDER BY
\* sorts them by the column, rows with equal keys in any order, and without
\* ORDER BY the order is the database's choice; OFFSET skips rows and LIMIT
\* then bounds the count, whatever the order in which limit() and offset()
\* were called. The result is the set of sequences the database may return.
all(table, q) ==
  LET matching == {i \in 1..Len(table) :
                     \A k \in DOMAIN q.filter_by : QRow(table, i)[k] = q.filter_by[k]}
      before(a, b) == IF q.order_by = "None" THEN TRUE
                      ELSE IF q.desc THEN QRow(table, a)[q.order_by] >= QRow(table, b)[q.order_by]
                      ELSE QRow(table, a)[q.order_by] <= QRow(table, b)[q.order_by]
      orderings == {p \in [1..Cardinality(matching) -> matching] :
                      /\ \A j, k \in DOMAIN p : j # k => p[j] # p[k]
                      /\ \A j, k \in DOMAIN p : j < k => before(p[j], p[k])}
      rest(p) == IF q.offset = Unset THEN p
                 ELSE SubSeq(p, q.offset + 1, Len(p))
      first(p) == IF q.limit = Unset \/ q.limit >= Len(p) THEN p
                  ELSE SubSeq(p, 1, q.limit)
  IN {[k \in DOMAIN first(rest(p)) |-> QRow(table, first(rest(p))[k])] : p \in orderings}

\* sqlalchemy_utils.py:129-145, get_all: the query is built step by step and
\* run.
get_all(table, limit, offset, order_by, desc, kwargs) ==
  LET query == _get_query(kwargs)
      ordered == IF order_by # "None"
                 THEN [query EXCEPT !.order_by = order_by, !.desc = desc]
                 ELSE query
      limited == IF limit # Unset THEN [ordered EXCEPT !.limit = limit] ELSE ordered
      paged == IF offset # Unset THEN [limited EXCEPT !.offset = offset] ELSE limited
  IN all(table, paged)

\* A table and the arguments of one call of get_all.
GetAllInit ==
  /\ PoolInit /\ SessInit /\ CrudInit
  /\ \E t \in QTables, f \in QFilters, l \in QPages, o \in QPages,
        ob \in QOrders, d \in BOOLEAN :
       pureEv = [op |-> "get_all", phase |-> "call", table |-> t, kwargs |-> f,
                 limit |-> l, offset |-> o, order_by |-> ob, desc |-> d, ret |-> <<>>]

\* The call of get_all returns one of the sequences the database may give.
GetAll ==
  /\ pureEv.op = "get_all"
  /\ pureEv.phase = "call"
  /\ \E r \in get_all(pureEv.table, pureEv.limit, pureEv.offset, pureEv.order_by,
                      pureEv.desc, pureEv.kwargs) :
       pureEv' = [pureEv EXCEPT !.phase = "done", !.ret = r]
  /\ UNCHANGED <<poolVars, sessVars, crudVars>>

GetAllNext == GetAll

\* -------------------------------------------------------- serialize_value
MaxNest == 2         \* containers around the innermost value
MaxItems == 2        \* elements of the innermost container

\* A Python value: kind says what it is, v holds a scalar's number (an int,
\* an Enum member's value, a datetime's whole seconds or a date's days since
\* the epoch) and items the elements of a list or tuple, the values of a dict
\* in key order, or the column values of an entity in column order.
Scalar(kind, v) == [kind |-> kind, v |-> v, items |-> <<>>]
Container(kind, items) == [kind |-> kind, v |-> 0, items |-> items]
NoneValue == Scalar("none", 0)

\* The scalars: None, the ints 0 and 1, the members of an Enum class of
\* const.py with values 0 and 1, a datetime and a date.
Leaves ==
  {NoneValue, Scalar("int", 0), Scalar("int", 1), Scalar("enum", 0),
   Scalar("enum", 1), Scalar("datetime", 1), Scalar("date", 1)}
ContainerKinds == {"list", "tuple", "dict", "entity"}

\* The values serialized: a scalar or a container of scalars, inside up to
\* MaxNest containers of one element each.
Flat ==
  Leaves \cup {Container(k, s) : k \in ContainerKinds,
                                 s \in UNION {[1..n -> Leaves] : n \in 0..MaxItems}}
Paths == UNION {[1..n -> ContainerKinds] : n \in 0..MaxNest}
RECURSIVE Nested(_, _)
Nested(path, value) ==
  IF path = <<>> THEN value
  ELSE Container(Head(path), <<Nested(Tail(path), value)>>)

\* Python's truth value, the "if value:" of sqlalchemy_utils.py:41: None, 0
\* and empty containers are false; a member of a plain Enum class, a datetime,
\* a date and an entity are true.
truth(value) ==
  IF value.kind = "none" THEN FALSE
  ELSE IF value.kind = "int" THEN value.v # 0
  ELSE IF value.kind \in {"list", "tuple", "dict"} THEN value.items # <<>>
  ELSE TRUE

\* sqlalchemy_utils.py:12-21 and 24-37: whole seconds since the epoch.
DATETIME_TO_UTC(dt) == Scalar("int", dt.v)
DATE_TO_UTC(dt) == Scalar("int", dt.v * 86400)

RECURSIVE serialize_value(_)

\* sqlalchemy_utils.py:94-103, SerializeMixin.to_dict with its default
\* arguments: a dict of the serialized value of every column.
to_dict(self) ==
  Container("dict", [k \in DOMAIN self.items |-> serialize_value(self.items[k])])

\* serialize_value that converts the value itself but not the elements of a
\* container.
serialize_value_shallow(value) ==
  IF truth(value)
  THEN IF value.kind = "datetime" THEN DATETIME_TO_UTC(value)
       ELSE IF value.kind = "date" THEN DATE_TO_UTC(value)
       ELSE IF value.kind = "enum" THEN Scalar("int", value.v)
       ELSE IF value.kind = "entity" THEN to_dict(value)
       ELSE value
  ELSE value

\* sqlalchemy_utils.py:40-56, serialize_value.
serialize_value(value) ==
  IF truth(value)
  THEN IF value.kind = "datetime" THEN DATETIME_TO_UTC(value)
       ELSE IF value.kind = "date" THEN DATE_TO_UTC(value)
       ELSE IF value.kind = "enum" THEN Scalar("int", value.v)
       ELSE IF value.kind = "dict"
       THEN Container("dict", [k \in DOMAIN value.items |-> serialize_value(value.items[k])])
       ELSE IF value.kind \in {"list", "tuple"}
       THEN Container(value.kind,
                      [k \in DOMAIN value.items |-> serialize_value(value.items[k])])
       ELSE IF value.kind = "entity" THEN to_dict(value)
       ELSE value
  ELSE value

\* An attribute value about to be serialized.
SerializeInit ==
  /\ PoolInit /\ SessInit /\ CrudInit
  /\ \E p \in Paths, f \in Flat :
       pureEv = [op |-> "serialize_value", phase |-> "call",
                 value |-> Nested(p, f), ret |-> NoneValue]

Serialize ==
  /\ pureEv.op = "serialize_value"
  /\ pureEv.phase = "call"
  /\ pureEv' = [pureEv EXCEPT !.phase = "done", !.ret = serialize_value(pureEv.value)]
  /\ UNCHANGED <<poolVars, sessVars, crudVars>>

SerializeNext == Serialize

\* --------------------------------------------------------- TruncateString
MaxStr == 3          \* longest string assigned, and largest declared length

\* The values assigned to a designated field: None, or a string over two
\* characters (s: its characters; none: the value is None).
Chars == {"a", "b"}
Strings == UNION {[1..n -> Chars] : n \in 0..MaxStr}
StrValues == {[none |-> TRUE, s |-> <<>>]} \cup {[none |-> FALSE, s |-> s] : s \in Strings}

\* A validator that stores every value as it is given.
validate_keep(max_len, value) == value

\* sqlalchemy_utils.py:218-223, validate_string_field_length, with max_len
\* the declared length of the column (line 220): a value that is true (not
\* None, not empty) and longer than max_len is cut to value[:max_len].
validate_string_field_length(max_len, value) ==
  IF (~value.none /\ value.s # <<>>) /\ Len(value.s) > max_len
  THEN [none |-> FALSE, s |-> SubSeq(value.s, 1, max_len)]
  ELSE value

\* A designated field of declared length max_len and a value to assign.
TruncateInit ==
  /\ PoolInit /\ SessInit /\ CrudInit
  /\ \E l \in 0..MaxStr, v \in StrValues :
       pureEv = [op |-> "TruncateString", phase |-> "call", max_len |-> l,
                 value |-> v, stored |-> v, again |-> v]

\* The value is assigned: the validator's result is what the field holds.
Assign ==
  /\ pureEv.op = "TruncateString"
  /\ pureEv.phase = "call"
  /\ pureEv' = [pureEv EXCEPT !.phase = "assigned",
                  !.stored = validate_string_field_length(pureEv.max_len, pureEv.value)]
  /\ UNCHANGED <<poolVars, sessVars, crudVars>>

\* The value the field holds is assigned to it once more.
AssignAgain ==
  /\ pureEv.op = "TruncateString"
  /\ pureEv.phase = "assigned"
  /\ pureEv' = [pureEv EXCEPT !.phase = "reassigned",
                  !.again = validate_string_field_length(pureEv.max_len, pureEv.stored)]
  /\ UNCHANGED <<poolVars, sessVars, crudVars>>

TruncateNext == Assign \/ AssignAgain

\* ---------------------------------------------------- update_model_fields
\* The models update_model_fields is applied to: an entity with any values
\* in its two fields.
Models ==
  {[exists |-> TRUE, stamped |-> TRUE, name |-> n, updated_at |-> t] :
     n \in NameVals, t \in TimeVals}

\* The field_names arguments of a direct call: those of update, and a list
\* naming a field twice.
DirectFieldNames ==
  FieldNamesArgs \cup {[given |-> TRUE, names |-> <<"name", "name">>]}

\* A model and the arguments of one call of update_model_fields.
UpdateFieldsInit ==
  /\ PoolInit /\ SessInit /\ CrudInit
  /\ \E m \in Models, sk \in BOOLEAN, fn \in DirectFieldNames, f \in FieldsArgs :
       pureEv = [op |-> "update_model_fields", phase |-> "call", model |-> m,
                 skip_if_value_none |-> sk, field_names |-> fn, fields |-> f,
                 ret |-> [model |-> m, model_updated |-> FALSE]]

\* The call returns: the model as it is now, and the function's result.
UpdateFields ==
  /\ pureEv.op = "update_model_fields"
  /\ pureEv.phase = "call"
  /\ pureEv' = [pureEv EXCEPT !.phase = "done",
                  !.ret = update_model_fields(pureEv.model, pureEv.skip_if_value_none,
                                              pureEv.field_names, pureEv.fields)]
  /\ UNCHANGED <<poolVars, sessVars, crudVars>>

UpdateFieldsNext == UpdateFields

\* ------------------------------------------------------- specifications
\* No function is being applied on its own.
PureIdle == pureEv = [op |-> "idle"]

Init == PoolInit /\ SessInit /\ CrudInit /\ PureIdle

PoolSpec == Init /\ [][PoolNext]_vars

RegSpec == Init /\ [][RegNext]_vars

SessSpec == Init /\ [][SessNext]_vars

CrudSpec == Init /\ [][CrudNext]_vars

SerializeSpec == SerializeInit /\ [][SerializeNext]_vars

TruncateSpec == TruncateInit /\ [][TruncateNext]_vars

UpdateFieldsSpec == UpdateFieldsInit /\ [][UpdateFieldsNext]_vars

GetAllSpec == GetAllInit /\ [][GetAllNext]_vars

\* The whole layer: every operation of every part.
Next == PoolNext \/ RegNext \/ SessNext \/ CrudNext

Spec == Init /\ [][Next]_vars

\* ------------------------------------------------------------ the claims
\* The logical name a database argument stands for.
NameOf(database) == IF database = "None" \/ database = "" THEN "local" ELSE database

\* C2: an invocation of a decorated function that was given no session and
\* obtained one itself has closed that session when it ends, however fn ended
\* (return, SQLAlchemyError, any other exception): close is the last session
\* step it took and the session is closed.
C2_ClosedOnEveryExit ==
  (ev.kind = "exit" /\ ev.injected # None) =>
     /\ sess[ev.injected].state = "closed"
     /\ ev.steps # <<>>
     /\ ev.steps[Len(ev.steps)] = "close"

\* C2 witness: an invocation that injected its session ended by propagating
\* an exception that is no data-access error.
C2_Witness ==
  /\ ev.kind = "exit"
  /\ ev.injected # None
  /\ ev.outcome = "Exception"
  /\ ev.to = "raise"
  /\ sess[ev.injected].state = "closed"

\* C3 as stated: whenever fn raises a data-access error the session used for
\* the call is rolled back before the same error is re-raised, whether the
\* decorator injected the session or the caller supplied it.
C3_Original ==
  (ev.kind = "exit" /\ ev.outcome = "SQLAlchemyError") =>
     /\ ev.to = "raise"
     /\ ev.exc = "SQLAlchemyError"
     /\ \E k \in 1..Len(ev.steps) : ev.steps[k] = "rollback"

\* C3 amended: whenever fn raises a data-access error the same error is
\* re-raised; the session is rolled back (and then closed) before that when
\* the decorator injected it, and is not touched by the decorator when the
\* caller supplied it.
C3_RollbackWhenInjected ==
  (ev.kind = "exit" /\ ev.outcome = "SQLAlchemyError") =>
     /\ ev.to = "raise"
     /\ ev.exc = "SQLAlchemyError"
     /\ ev.injected # None => ev.steps = <<"rollback", "close">>
     /\ ev.injected = None =>
          /\ ev.steps = <<>>
          /\ sess[ev.kw].state # "rolledback"

\* C3 witness: fn raised a data-access error in an invocation whose session
\* the caller had supplied, and the error propagated with no rollback.
C3_Witness ==
  /\ ev.kind = "exit"
  /\ ev.outcome = "SQLAlchemyError"
  /\ ev.injected = None
  /\ ev.kw # None
  /\ ev.exc = "SQLAlchemyError"
  /\ ev.steps = <<>>

\* C4 as stated: when a DBSession scope has ended, however its body ended,
\* the session it acquired is no longer the scope session of the factory that
\* made it (the factory of the scope's database name).
C4_Original ==
  ev.kind = "scope_exit" =>
     /\ fact[sess[ev.session].factory].database = NameOf(ev.database)
     /\ fact[sess[ev.session].factory].registry # ev.session

\* C5: for every retry_count >= 1 an invocation calls fn exactly once, and
\* how it ends depends only on how fn ended and on whether the session was
\* injected: the result is returned or the same exception raised, after
\* rollback-then-close (data-access error) or close (otherwise) of an injected
\* session and no session step at all on a supplied one.
C5_ExactlyOneAttempt ==
  (ev.kind = "exit" /\ ev.retry_count >= 1) =>
     /\ ev.calls = 1
     /\ ev.to = (IF ev.outcome = "return" THEN "return" ELSE "raise")
     /\ ev.exc = (IF ev.outcome = "return" THEN "None" ELSE ev.outcome)
     /\ ev.steps = (IF ev.injected = None THEN <<>>
                    ELSE IF ev.outcome = "SQLAlchemyError"
                    THEN <<"rollback", "close">>
                    ELSE <<"close">>)

\* C5 witness: an invocation with the default retry_count of 3 whose fn raised
\* a data-access error ended after that single call.
C5_Witness ==
  /\ ev.kind = "exit"
  /\ ev.retry_count = DefaultRetryCount
  /\ ev.outcome = "SQLAlchemyError"
  /\ ev.injected # None
  /\ ev.calls = 1
  /\ ev.to = "raise"

\* C6: at most one engine is ever constructed per logical name, with one set
\* of hooks; a call of get_db_engine returns the engine cached under the name
\* (empty or absent: "local"), which has the passed parameters when the call
\* constructed it and is the engine that was cached before otherwise.
C6_OneEnginePerName ==
  /\ \A d \in DbNames :
       /\ built[d] <= 1
       /\ engine[d].hooks = built[d]
       /\ (engine[d].id = None) = (built[d] = 0)
  /\ \A d1 \in DbNames, d2 \in DbNames :
       (d1 # d2 /\ engine[d1].id # None) => engine[d1].id # engine[d2].id
  /\ ev.kind = "get_db_engine" =>
       /\ ev.ret # None
       /\ ev.ret = engine[NameOf(ev.database)].id
       /\ IF ev.before.id = None
          THEN /\ engine[NameOf(ev.database)].pool_size = ev.pool_size
               /\ engine[NameOf(ev.database)].pool_recycle = ev.pool_recycle
          ELSE engine[NameOf(ev.database)] = ev.before

\* C6 witness: get_db_engine was called with an empty name and parameters
\* other than those of the engine already cached for "local".
C6_Witness ==
  /\ ev.kind = "get_db_engine"
  /\ ev.database = ""
  /\ ev.before.id # None
  /\ ev.before.pool_size # ev.pool_size
  /\ ev.ret = ev.before.id

\* C7: get_session returns the factory that was cached exactly when one was
\* cached and its probe succeeded; otherwise it returns a newly built factory
\* bound to the engine of the same name; either way the factory returned is
\* the one cached under the name afterwards.
C7_SessionRegistry ==
  ev.kind = "get_session" =>
     /\ ev.ret # None
     /\ ev.ret = sessionReg[NameOf(ev.database)]
     /\ (ev.ret = ev.cached) = (ev.cached # None /\ ev.connOk)
     /\ ev.ret # ev.cached => ev.ret = nFact
     /\ fact[ev.ret].database = NameOf(ev.database)
     /\ fact[ev.ret].bind # None
     /\ fact[ev.ret].bind = engine[NameOf(ev.database)].id

\* C7 witness: the cached factory failed its probe and a new one replaced it.
C7_Witness ==
  /\ ev.kind = "get_session"
  /\ ev.cached # None
  /\ ~ev.connOk
  /\ ev.ret # ev.cached
  /\ sessionReg[NameOf(ev.database)] = ev.ret

\* C8 as stated: when the body of a DBSession scope raises a data-access
\* error, the session is rolled back, then removed from the scope of its
\* registry, and the error propagates.
C8_Original ==
  (ev.kind = "scope_exit" /\ ev.outcome = "SQLAlchemyError") =>
     /\ ev.steps = <<"rollback", "remove">>
     /\ ev.exc = "SQLAlchemyError"
     /\ fact[sess[ev.session].factory].registry # ev.session

\* C9 as stated: update on an existing entity leaves updated_at unchanged and
\* returns the entity when no selected field's new value differs from its
\* current value; when one differs and the entity has updated_at, updated_at
\* is set to the current time, which is at least its previous value.
C9_Original ==
  (crudEv.kind = "update" /\ crudEv.found) =>
     /\ ~crudEv.differ => crudEv.item = crudEv.before
     /\ (crudEv.differ /\ crudEv.before.stamped) =>
          /\ crudEv.item.updated_at = now
          /\ crudEv.item.updated_at >= crudEv.before.updated_at

\* C9 amended: update on an existing entity returns it with updated_at (and
\* everything else) unchanged when no selected field's new value differs from
\* its current value; when one differs and the entity has updated_at,
\* updated_at is set to the current time, whatever its previous value was:
\* that is at least the previous value when the previous value was not later
\* than the clock (an entity without updated_at gets none).
C9_StampedWhenChanged ==
  (crudEv.kind = "update" /\ crudEv.found) =>
     /\ crudEv.item.exists
     /\ ~crudEv.differ => crudEv.item = crudEv.before
     /\ (crudEv.differ /\ crudEv.before.stamped) =>
          /\ crudEv.item.updated_at = now
          /\ crudEv.before.updated_at <= now =>
               crudEv.item.updated_at >= crudEv.before.updated_at
     /\ ~crudEv.before.stamped => crudEv.item.updated_at = None

\* C9 witness: an update that changed a field of an entity stamped earlier
\* moved its updated_at forward to the current time.
C9_Witness ==
  /\ crudEv.kind = "update"
  /\ crudEv.found
  /\ crudEv.differ
  /\ crudEv.before.stamped
  /\ crudEv.before.updated_at # None
  /\ crudEv.before.updated_at < now
  /\ crudEv.item.updated_at = now

\* C10 as stated: update on an existing entity with a callback supplied calls
\* it with the entity and returns the entity, whether or not a field changed.
C10_Original ==
  (crudEv.kind = "update" /\ crudEv.found /\ crudEv.update_callback) =>
     /\ crudEv.item.exists
     /\ crudEv.callback = <<crudEv.item>>

\* C10 amended: update on an existing entity returns the entity whether or
\* not a field changed, and calls the callback, once and with the entity
\* returned, exactly when one was supplied and a selected field's value
\* changed.
C10_CallbackWhenChanged ==
  (crudEv.kind = "update" /\ crudEv.found) =>
     /\ crudEv.item.exists
     /\ crudEv.callback =
          (IF crudEv.update_callback /\ crudEv.differ THEN <<crudEv.item>> ELSE <<>>)

\* C10 witness: a callback was supplied, no field changed, the entity came
\* back as it was and the callback was not called.
C10_Witness ==
  /\ crudEv.kind = "update"
  /\ crudEv.found
  /\ crudEv.update_callback
  /\ ~crudEv.differ
  /\ crudEv.item = crudEv.before
  /\ crudEv.callback = <<>>

\* C11: a call of update, delete or get for an id that has no row returns
\* absent (update and get return None, delete returns), invokes no callback,
\* and leaves the stored rows and the id sequence as they were.
C11_NotFoundNoEffect ==
  [][(crudEv'.kind # crudEv.kind /\ crudEv'.kind \in {"update", "delete", "get"}
       /\ ~get(rows, crudEv'.id).exists)
     => /\ ~crudEv'.found
        /\ rows' = rows
        /\ nextId' = nextId
        /\ crudEv'.kind \in {"update", "get"} => crudEv'.item = NoRow
        /\ crudEv'.kind = "update" => crudEv'.callback = <<>>]_vars

\* C11 witness: update was called, with a callback and with commit, for the
\* id of a row that had been given out and is not stored, and reported the
\* row absent.
C11_Witness ==
  /\ crudEv.kind = "update"
  /\ ~crudEv.found
  /\ crudEv.update_callback
  /\ crudEv.commit
  /\ crudEv.id <= nextId
  /\ crudEv.callback = <<>>
  /\ ~get(rows, crudEv.id).exists

\* C12: create(fields) with commit stores a new row under a non-null id with
\* every pair of fields assigned, and a get(id=result.id) made next, in a
\* decorated call of its own, returns an entity with the same id and the same
\* field values as the entity create returned.
C12_CreateGetRoundTrip ==
  /\ (crudEv.kind = "create" /\ crudEv.commit) =>
        /\ crudEv.id # None
        /\ crudEv.item.exists
        /\ \A k \in DOMAIN crudEv.fields : crudEv.item[k] = crudEv.fields[k]
        /\ rows[crudEv.id] = crudEv.item
  /\ (crudEv.kind = "get" /\ crudEv.prev.kind = "create" /\ crudEv.prev.commit
        /\ crudEv.id = crudEv.prev.id) =>
        /\ crudEv.found
        /\ crudEv.item = crudEv.prev.item

\* C12 witness: get was called for the id of the entity a committing create
\* had just returned, which took its updated_at from the column default, and
\* returned an equal entity.
C12_Witness ==
  /\ crudEv.kind = "get"
  /\ crudEv.prev.kind = "create"
  /\ crudEv.prev.commit
  /\ crudEv.id = crudEv.prev.id
  /\ crudEv.prev.item.stamped
  /\ "updated_at" \notin DOMAIN crudEv.prev.fields
  /\ crudEv.prev.item.name # None
  /\ crudEv.found
  /\ crudEv.item = crudEv.prev.item

\* C13: get_all returns rows of the table that match every equality filter,
\* each once; as many as remain of the matching rows after the first offset
\* are skipped, and at most limit; in the order of the order_by column
\* (descending with desc), each row at the place that order gives it among
\* all matching rows; and on rows named 1, 2, 3 (a, b, c),
\* get_all(order_by=name, desc=True, limit=2) returns 3 then 2.
C13_GetAll ==
  (pureEv.op = "get_all" /\ pureEv.phase = "done") =>
    LET t == pureEv.table
        ret == pureEv.ret
        M == {i \in 1..Len(t) :
                /\ "id" \in DOMAIN pureEv.kwargs => i = pureEv.kwargs["id"]
                /\ "name" \in DOMAIN pureEv.kwargs => t[i] = pureEv.kwargs["name"]}
        off == IF pureEv.offset = Unset THEN 0 ELSE pureEv.offset
        left == IF Cardinality(M) > off THEN Cardinality(M) - off ELSE 0
        key(i) == IF pureEv.order_by = "id" THEN i ELSE t[i]
        lt(a, b) == IF pureEv.desc THEN a > b ELSE a < b
    IN /\ \A k \in 1..Len(ret) : ret[k].id \in M /\ ret[k].name = t[ret[k].id]
       /\ \A j, k \in 1..Len(ret) : j # k => ret[j].id # ret[k].id
       /\ Len(ret) = (IF pureEv.limit = Unset \/ pureEv.limit > left
                      THEN left ELSE pureEv.limit)
       /\ pureEv.order_by # "None" =>
            \A k \in 1..Len(ret) :
              /\ Cardinality({i \in M : lt(key(i), key(ret[k].id))}) <= off + k - 1
              /\ Cardinality({i \in M : ~lt(key(ret[k].id), key(i))}) >= off + k
       /\ (Len(t) = 3 /\ {t[i] : i \in 1..3} = {1, 2, 3} /\ DOMAIN pureEv.kwargs = {}
             /\ pureEv.order_by = "name" /\ pureEv.desc /\ pureEv.limit = 2
             /\ pureEv.offset = Unset)
            => (Len(ret) = 2 /\ ret[1].name = 3 /\ ret[2].name = 2)

\* C13 witness: on a table holding the names 2, 3, 1 get_all(order_by=name,
\* desc=True, limit=2) has returned the rows named 3 and 2, in that order.
C13_Witness ==
  /\ pureEv.op = "get_all"
  /\ pureEv.phase = "done"
  /\ pureEv.table = <<2, 3, 1>>
  /\ DOMAIN pureEv.kwargs = {}
  /\ pureEv.order_by = "name"
  /\ pureEv.desc
  /\ pureEv.limit = 2
  /\ pureEv.offset = Unset
  /\ Len(pureEv.ret) = 2
  /\ pureEv.ret[1].name = 3
  /\ pureEv.ret[2].name = 2

\* What the serialization of a value must be: the scalar value for an Enum
\* member, whole epoch seconds for a datetime or date, for an entity the dict
\* of its serialized columns, for a dict, list or tuple a container of the
\* same kind with every element serialized, at every depth, and the value
\* itself otherwise.
RECURSIVE Serialized(_, _)
Serialized(value, ret) ==
  IF value.kind = "enum" THEN ret = Scalar("int", value.v)
  ELSE IF value.kind = "datetime" THEN ret = Scalar("int", value.v)
  ELSE IF value.kind = "date" THEN ret = Scalar("int", value.v * 86400)
  ELSE IF value.kind \in ContainerKinds
  THEN /\ ret.kind = (IF value.kind = "entity" THEN "dict" ELSE value.kind)
       /\ Len(ret.items) = Len(value.items)
       /\ \A k \in 1..Len(value.items) : Serialized(value.items[k], ret.items[k])
  ELSE ret = value

\* C14: serialize_value yields the underlying scalar value for every Enum
\* member, the entity's own to_dict() mapping for every nested entity, the
\* element-wise serialization in a container of the same kind for every
\* nested dict, list or tuple, at every nesting depth, and returns values of
\* no special kind unchanged.
C14_Serialization ==
  (pureEv.op = "serialize_value" /\ pureEv.phase = "done") =>
     Serialized(pureEv.value, pureEv.ret)

\* C14 witness: a list holding a tuple holding the Enum member of value 0 and
\* an int has been serialized into a list holding a tuple of two ints.
C14_Witness ==
  /\ pureEv.op = "serialize_value"
  /\ pureEv.phase = "done"
  /\ pureEv.value =
       Container("list", <<Container("tuple", <<Scalar("enum", 0), Scalar("int", 1)>>)>>)
  /\ pureEv.ret =
       Container("list", <<Container("tuple", <<Scalar("int", 0), Scalar("int", 1)>>)>>)

\* C15: a string longer than the declared length L assigned to a designated
\* field is stored as exactly its first L characters; a string of at most L
\* characters, an empty string and None are stored unchanged; so the stored
\* string never has more than L characters, and assigning the stored value
\* again stores the same value.
C15_SilentTruncation ==
  (pureEv.op = "TruncateString" /\ pureEv.phase \in {"assigned", "reassigned"}) =>
     /\ (~pureEv.value.none /\ Len(pureEv.value.s) > pureEv.max_len) =>
          /\ ~pureEv.stored.none
          /\ Len(pureEv.stored.s) = pureEv.max_len
          /\ \A k \in 1..pureEv.max_len : pureEv.stored.s[k] = pureEv.value.s[k]
     /\ (pureEv.value.none \/ Len(pureEv.value.s) <= pureEv.max_len) =>
          pureEv.stored = pureEv.value
     /\ Len(pureEv.stored.s) <= pureEv.max_len
     /\ pureEv.phase = "reassigned" => pureEv.again = pureEv.stored

\* C15 witness: a string of three characters assigned to a field of declared
\* length 2 was stored as its first two characters, and assigning that value
\* again left it as it was.
C15_Witness ==
  /\ pureEv.op = "TruncateString"
  /\ pureEv.phase = "reassigned"
  /\ pureEv.max_len = 2
  /\ pureEv.value.s = <<"a", "b", "b">>
  /\ pureEv.stored.s = <<"a", "b">>
  /\ pureEv.again = pureEv.stored

\* C16 as stated: the session an invocation injected stays open while its
\* wrapped function is still running, whatever functions that function calls.
C16_Original ==
  \A k \in 1..Len(stack) :
    stack[k].session # None => sess[stack[k].session].state # "closed"

C18_NoCommitNoChange ==
  [][/\ (crudEv.kind = "idle" /\ crudEv'.kind \in {"create", "update", "delete"}
          /\ ~crudEv'.commit) => rows' = rows
     /\ (crudEv.kind \in {"create", "update", "delete"} /\ ~crudEv.commit
          /\ crudEv'.kind = "get" /\ crudEv'.id = crudEv.id) =>
          IF crudEv.kind = "create"
          THEN ~crudEv'.found /\ crudEv'.item = NoRow
          ELSE crudEv'.found = crudEv.found /\ crudEv'.item = crudEv.before]_vars

\* C18 witness: an update without commit changed a field of the entity it
\* returned, and the get made next returned the row with its old values.
C18_Witness ==
  /\ crudEv.kind = "get"
  /\ crudEv.prev.kind = "update"
  /\ ~crudEv.prev.commit
  /\ crudEv.prev.found
  /\ crudEv.prev.differ
  /\ crudEv.id = crudEv.prev.id
  /\ crudEv.prev.item # crudEv.prev.before
  /\ crudEv.item = crudEv.prev.before

\* C19: update_model_fields assigns a field exactly when its name is in
\* field_names (any key of fields when field_names is None), it is a key of
\* fields, its new value is not None while skip_if_value_none is set, and its
\* new value is unequal to the current one; every other attribute of the
\* model keeps its value; and the function returns true exactly when at least
\* one field was assigned.
C19_UpdateModelFields ==
  (pureEv.op = "update_model_fields" /\ pureEv.phase = "done") =>
    LET named(k) == ~pureEv.field_names.given
                    \/ \E n \in 1..Len(pureEv.field_names.names) :
                          pureEv.field_names.names[n] = k
        assigned == {k \in FieldNames :
                       /\ named(k)
                       /\ k \in DOMAIN pureEv.fields
                       /\ ~(pureEv.skip_if_value_none /\ pureEv.fields[k] = None)
                       /\ pureEv.fields[k] # pureEv.model[k]}
    IN /\ \A k \in assigned : pureEv.ret.model[k] = pureEv.fields[k]
       /\ \A k \in FieldNames \ assigned : pureEv.ret.model[k] = pureEv.model[k]
       /\ pureEv.ret.model.exists = pureEv.model.exists
       /\ pureEv.ret.model.stamped = pureEv.model.stamped
       /\ pureEv.ret.model_updated = (assigned # {})

\* C19 witness: with field_names naming only name and skip_if_value_none set,
\* fields held a new name and a new updated_at; name was assigned,
\* updated_at was not, and the function returned true.
C19_Witness ==
  /\ pureEv.op = "update_model_fields"
  /\ pureEv.phase = "done"
  /\ pureEv.field_names = [given |-> TRUE, names |-> <<"name">>]
  /\ pureEv.skip_if_value_none
  /\ DOMAIN pureEv.fields = {"name", "updated_at"}
  /\ pureEv.fields["updated_at"] # pureEv.model.updated_at
  /\ pureEv.fields["name"] # None
  /\ pureEv.ret.model.name = pureEv.fields["name"]
  /\ pureEv.ret.model.name # pureEv.model.name
  /\ pureEv.ret.model.updated_at = pureEv.model.updated_at
  /\ pureEv.ret.model_updated

====
